---- MODULE Spec2Model ----
(***************************************************************************)
(* Pen-plotter motion pipeline: G-code line parsing, command dispatch,     *)
(* three-joint trajectory interpolation and the angle -> duty_u16          *)
(* conversion (plotter_main.py, servo_translator.py).                      *)
(*                                                                         *)
(* Numbers.  The program computes in floating point.  The model computes   *)
(* the same expressions in exact rational arithmetic: an angle held in     *)
(* JointState is an integer count of angle units (Unit units per degree),  *)
(* an angle handed to translate is a pair <<n, d>> standing for n/d angle  *)
(* units (d is the step count of the move that produced it).               *)
(***************************************************************************)
EXTENDS Integers, Sequences, FiniteSets, TLC

(* ------------------------------------------------------------------ *)
(* Program constants, in the units the source writes them in           *)
(* ------------------------------------------------------------------ *)
WRIST_UP_ANGLE == 0
WRIST_DOWN_ANGLE == 30
SHOULDER_OFFSET == 0
ELBOW_OFFSET == 0
WRIST_OFFSET == 0
STEP_DEG == 1
MIN_ANGLE == 0
MAX_ANGLE == 180
MIN_PULSE_US == 1000
MAX_PULSE_US == 2000
PWM_FREQ == 50
START_SHOULDER == 90
START_ELBOW == 90
(* max_delta < 0.0001, written as max_delta * ThresholdDen < 1 degree *)
ThresholdDen == 10000
U16_MAX == 65535
MICROS_PER_SECOND == 1000000

(* Angle resolution of the model: half a threshold, so that a non-zero *)
(* change below the threshold can be written down.                     *)
Unit == 2 * ThresholdDen
Deg(x) == x * Unit

(* Bound of the model: the number of lines of the input file. *)
MaxLines == 2

(* ------------------------------------------------------------------ *)
(* Exact arithmetic helpers (no intermediate exceeds the 32-bit range) *)
(* ------------------------------------------------------------------ *)
Abs(x) == IF x < 0 THEN -x ELSE x
Max2(a, b) == IF b > a THEN b ELSE a
Max3(a, b, c) == Max2(Max2(a, b), c)

RECURSIVE GCD(_, _)
GCD(a, b) == IF b = 0 THEN a ELSE GCD(b, a % b)

RECURSIVE Pow10(_)
Pow10(k) == IF k = 0 THEN 1 ELSE 10 * Pow10(k - 1)

(* x + y for 0 <= x, y < c, as <<carry, (x + y) mod c>> *)
AddC(x, y, c) == IF x >= c - y THEN <<1, x - (c - y)>> ELSE <<0, x + y>>

(* a * b for 0 <= a < c, b >= 0, as <<(a*b) div c, (a*b) mod c>> *)
RECURSIVE MulSmall(_, _, _)
MulSmall(a, b, c) ==
    IF b = 0 THEN <<0, 0>>
    ELSE LET h == MulSmall(a, b \div 2, c)
             dbl == AddC(h[2], h[2], c)
             add == IF b % 2 = 1 THEN AddC(dbl[2], a, c) ELSE <<0, dbl[2]>>
         IN  <<2 * h[1] + dbl[1] + add[1], add[2]>>

(* a * b for b >= 0, c > 0, as <<(a*b) div c, (a*b) mod c>>: directly  *)
(* when a * b fits 32 bits, else bit by bit                             *)
INT_MAX == 2147483647
MulDivMod(a, b, c) ==
    IF b = 0 \/ Abs(a) <= INT_MAX \div b
    THEN <<(a * b) \div c, (a * b) % c>>
    ELSE LET m == MulSmall(a % c, b, c)
         IN  <<(a \div c) * b + m[1], m[2]>>

(* int(): truncation toward zero of (t + f) / m, for an integer t, a    *)
(* fraction 0 <= f < 1 (fzero says f = 0) and m > 0                     *)
TruncDiv(t, fzero, m) ==
    IF t >= 0 THEN t \div m
    ELSE IF fzero THEN -((-t) \div m)
    ELSE -((-t - 1) \div m)

(* ------------------------------------------------------------------ *)
(* servo_translator.translate                                          *)
(* ------------------------------------------------------------------ *)
(* translate without the clamp at min_angle *)
translate_nolow(angle, min_angle, max_angle, min_pulse_us, max_pulse_us, pwm_freq) ==
    LET d == angle[2]
        n1 == angle[1]
        n == IF n1 > max_angle * d THEN max_angle * d ELSE n1
        r == GCD(d * (max_angle - min_angle), Abs(n - min_angle * d))
        g == (d * (max_angle - min_angle)) \div r
        f == (n - min_angle * d) \div r
        p == MulDivMod(f, max_pulse_us - min_pulse_us, g)
        k == pwm_freq * U16_MAX
        cd == GCD(k, MICROS_PER_SECOND)
        q == MulDivMod(p[2], k \div cd, g)
        duty_u16 == TruncDiv((min_pulse_us + p[1]) * (k \div cd) + q[1], q[2] = 0,
                             MICROS_PER_SECOND \div cd)
    IN  IF duty_u16 < 0 THEN 0
        ELSE IF duty_u16 > U16_MAX THEN U16_MAX
        ELSE duty_u16

(* translate without the clamp at max_angle *)
translate_nohigh(angle, min_angle, max_angle, min_pulse_us, max_pulse_us, pwm_freq) ==
    LET d == angle[2]
        n1 == IF angle[1] < min_angle * d THEN min_angle * d ELSE angle[1]
        n == n1
        r == GCD(d * (max_angle - min_angle), Abs(n - min_angle * d))
        g == (d * (max_angle - min_angle)) \div r
        f == (n - min_angle * d) \div r
        p == MulDivMod(f, max_pulse_us - min_pulse_us, g)
        k == pwm_freq * U16_MAX
        cd == GCD(k, MICROS_PER_SECOND)
        q == MulDivMod(p[2], k \div cd, g)
        duty_u16 == TruncDiv((min_pulse_us + p[1]) * (k \div cd) + q[1], q[2] = 0,
                             MICROS_PER_SECOND \div cd)
    IN  IF duty_u16 < 0 THEN 0
        ELSE IF duty_u16 > U16_MAX THEN U16_MAX
        ELSE duty_u16

translate(angle, min_angle, max_angle, min_pulse_us, max_pulse_us, pwm_freq) ==
    LET d == angle[2]
        (* clamp angle *)
        n1 == IF angle[1] < min_angle * d THEN min_angle * d ELSE angle[1]
        n == IF n1 > max_angle * d THEN max_angle * d ELSE n1
        (* frac = f / g, in lowest terms *)
        r == GCD(d * (max_angle - min_angle), Abs(n - min_angle * d))
        g == (d * (max_angle - min_angle)) \div r
        f == (n - min_angle * d) \div r
        (* pulse_us = min_pulse_us + p[1] + p[2] / g *)
        p == MulDivMod(f, max_pulse_us - min_pulse_us, g)
        (* duty_frac * 65535 = pulse_us * pwm_freq * 65535 / 1000000 *)
        k == pwm_freq * U16_MAX
        cd == GCD(k, MICROS_PER_SECOND)
        q == MulDivMod(p[2], k \div cd, g)
        duty_u16 == TruncDiv((min_pulse_us + p[1]) * (k \div cd) + q[1], q[2] = 0,
                             MICROS_PER_SECOND \div cd)
    IN  IF duty_u16 < 0 THEN 0
        ELSE IF duty_u16 > U16_MAX THEN U16_MAX
        ELSE duty_u16

(* ------------------------------------------------------------------ *)
(* Text: a line is the sequence of its whitespace-separated tokens     *)
(* (what strip() and split() leave), a token a sequence of characters  *)
(* ------------------------------------------------------------------ *)
Digits == <<"0", "1", "2", "3", "4", "5", "6", "7", "8", "9">>
IsDigit(ch) == \E i \in 1..10 : Digits[i] = ch
DigitVal(ch) == (CHOOSE i \in 1..10 : Digits[i] = ch) - 1

(* str.upper() on one character *)
Upper(ch) ==
    CASE ch = "g" -> "G"
      [] ch = "m" -> "M"
      [] ch = "s" -> "S"
      [] ch = "e" -> "E"
      [] ch = "x" -> "X"
      [] OTHER -> ch
UpperSeq(tok) == [i \in 1..Len(tok) |-> Upper(tok[i])]

RECURSIVE DigitsValue(_)
DigitsValue(ds) ==
    IF ds = <<>> THEN 0
    ELSE 10 * DigitsValue(SubSeq(ds, 1, Len(ds) - 1)) + DigitVal(ds[Len(ds)])

(* float(text): <<>> when it raises, else <<value in angle units>>.     *)
(* Accepted here: [sign] digits [. [digits]] and [sign] . digits        *)
ParseFloat(text) ==
    LET signed == text # <<>> /\ text[1] \in {"+", "-"}
        body == IF signed THEN Tail(text) ELSE text
        dots == {i \in 1..Len(body) : body[i] = "."}
        dot == IF dots = {} THEN Len(body) + 1 ELSE CHOOSE i \in dots : TRUE
        ip == SubSeq(body, 1, dot - 1)
        fp == SubSeq(body, dot + 1, Len(body))
        ok == /\ Cardinality(dots) <= 1
              /\ \A i \in 1..Len(body) : i \in dots \/ IsDigit(body[i])
              /\ Len(ip) + Len(fp) > 0
        mag == DigitsValue(ip) * Unit + (DigitsValue(fp) * Unit) \div Pow10(Len(fp))
    IN  IF ~ok THEN <<>>
        ELSE IF signed /\ text[1] = "-" THEN <<-mag>> ELSE <<mag>>

(* the token loop leaving at the first token it cannot use *)
RECURSIVE ParseParams_break(_, _)
ParseParams_break(tokens, result) ==
    IF tokens = <<>> THEN result
    ELSE LET token == Head(tokens)
             letter == Upper(token[1])
             value == ParseFloat(Tail(token))
         IN  IF Len(token) < 2 \/ value = <<>>
             THEN result
             ELSE ParseParams_break(Tail(tokens),
                      [l \in DOMAIN result \cup {letter} |->
                          IF l = letter THEN value[1] ELSE result[l]])

(* the "for token in parts[1:]" loop: result[letter] = value *)
RECURSIVE ParseParams(_, _)
ParseParams(tokens, result) ==
    IF tokens = <<>> THEN result
    ELSE LET token == Head(tokens)
             letter == Upper(token[1])
             value == ParseFloat(Tail(token))
         IN  IF Len(token) < 2 \/ value = <<>>
             THEN ParseParams(Tail(tokens), result)
             ELSE ParseParams(Tail(tokens),
                      [l \in DOMAIN result \cup {letter} |->
                          IF l = letter THEN value[1] ELSE result[l]])

NoParams == [l \in {} |-> 0]

(* parse_gcode_line: <<>> for None, else <<[cmd, params]>> *)
parse_gcode_line(line) ==
    IF line = <<>> THEN <<>>
    ELSE IF line[1][1] \in {";", "("} THEN <<>>
    ELSE <<[cmd |-> UpperSeq(line[1]), params |-> ParseParams(Tail(line), NoParams)]>>

(* dict.get(key, None): <<>> for None *)
Get(params, key) == IF key \in DOMAIN params THEN <<params[key]>> ELSE <<>>

CMD_G1 == <<"G", "1">>
CMD_M3 == <<"M", "3">>
CMD_M5 == <<"M", "5">>
CMD_M18 == <<"M", "1", "8">>

(* ------------------------------------------------------------------ *)
(* set_servo_angles: the pure parts                                    *)
(* ------------------------------------------------------------------ *)
(* an optional argument: <<>> for None, <<v>> for a value *)
None == <<>>
Some(v) == <<v>>

(* offsets applied, then "current if None else given" *)
Targets(current, s_angle, e_angle, w_angle) ==
    [s |-> IF s_angle = None THEN current.s ELSE s_angle[1] + Deg(SHOULDER_OFFSET),
     e |-> IF e_angle = None THEN current.e ELSE e_angle[1] + Deg(ELBOW_OFFSET),
     w |-> IF w_angle = None THEN current.w ELSE w_angle[1] + Deg(WRIST_OFFSET)]

MaxDelta(current, target) ==
    Max3(Abs(target.s - current.s), Abs(target.e - current.e),
         Abs(target.w - current.w))

(* no threshold test *)
Negligible_off(max_delta) == FALSE

(* max_delta < 0.0001 *)
Negligible(max_delta) == max_delta < Unit \div ThresholdDen

(* steps = int(max_delta / STEP_DEG) *)
StepCount_noplus(max_delta) == max_delta \div Deg(STEP_DEG)

(* steps = int(max_delta / (2 * STEP_DEG)) + 1 *)
StepCount_coarse(max_delta) == max_delta \div (2 * Deg(STEP_DEG)) + 1

(* steps = int(max_delta / STEP_DEG) + 1 *)
StepCount(max_delta) == max_delta \div Deg(STEP_DEG) + 1

(* frac = i / (steps + 1) *)
Interp_short(current, target, i, steps) ==
    <<current * (steps + 1) + i * (target - current), steps + 1>>

(* current + (i / steps) * (target - current), as a fraction over steps *)
Interp(current, target, i, steps) == <<current * steps + i * (target - current), steps>>

(* _write_servo(pwm_obj, angle): the call, recorded as [ch, angle]; the  *)
(* value it passes to pwm_obj.duty_u16 is Duty of that record            *)
write_servo(ch, angle) == [ch |-> ch, angle |-> angle]

Duty(w) ==
    translate(w.angle, Deg(MIN_ANGLE), Deg(MAX_ANGLE),
              MIN_PULSE_US, MAX_PULSE_US, PWM_FREQ)

(* the three writes of one pose, in the order the code issues them *)
WritePose(s_val, e_val, w_val) ==
    <<write_servo("shoulder", s_val), write_servo("elbow", e_val),
      write_servo("wrist", w_val)>>

(* ------------------------------------------------------------------ *)
(* The input files of the model                                        *)
(* ------------------------------------------------------------------ *)
L_BLANK == <<>>
L_COMMENT == << <<";">>, <<"S", "1">> >>
L_PAREN == << <<"(", "x", ")">> >>
L_G1_S89 == << <<"G", "1">>, <<"S", "8", "9">> >>
L_G1_LOWER == << <<"g", "1">>, <<"s", "9", "0", ".", "5">>, <<"E", "9", "1", ".", "5">> >>
L_G1_FAR == << <<"G", "1">>, <<"S", "1", "8", "1">>, <<"E", "-", "2", ".", "5">> >>
L_G1_TINY == << <<"G", "1">>, <<"S", "9", "0", ".", "0", "0", "0", "0", "5">> >>
L_G1_GARBAGE == << <<"G", "1">>, <<"S", "8", "8">>, <<"X", "x", "x">> >>
L_G1_RECOVER == << <<"G", "1">>, <<"S", "x">>, <<"E", "9", "1", ".", "5">>, <<"E">>,
                   <<"S", "1", ".", "2", ".", "3">> >>
L_G1_BARE == << <<"G", "1">> >>
L_G1_OTHER == << <<"G", "1">>, <<"X", "5">>, <<"S">> >>
L_G1_MALFORMED == << <<"G", "1">>, <<"S", "x">>, <<"E", "1", ".", "2", ".", "3">> >>
L_M3 == << <<"M", "3">> >>
L_M5 == << <<"m", "5">> >>
L_M18 == << <<"M", "1", "8">> >>
L_G28 == << <<"G", "2", "8">>, <<"S", "8", "9">> >>

LineSet ==
    {L_BLANK, L_COMMENT, L_PAREN, L_G1_S89, L_G1_LOWER, L_G1_FAR,
     L_G1_TINY, L_G1_GARBAGE, L_G1_RECOVER, L_G1_BARE, L_G1_OTHER,
     L_G1_MALFORMED, L_M3, L_M5, L_M18, L_G28}

Files == UNION {[1..n -> LineSet] : n \in 0..MaxLines}

(* ------------------------------------------------------------------ *)
(* State                                                               *)
(* ------------------------------------------------------------------ *)
VARIABLES
    input,      \* the lines of the G-code file
    pos,        \* number of lines the "for raw in f" loop has taken
    pc,         \* "main", "read" (loop head), "move" (inside the step loop), "done"
    current,    \* current_shoulder, current_elbow, current_wrist
    target,     \* target_s, target_e, target_w of the call in progress
    steps,      \* steps of the call in progress
    i,          \* loop variable of the step loop: steps already written
    log,        \* every _write_servo call so far, in order: [ch, angle]
    released,   \* every deinit call so far, in order
    reports,    \* every command report printed so far: [kind, line]
    pre,        \* JointState when the last set_servo_angles call began
    mark,       \* Len(log) when the last set_servo_angles call began
    probe,      \* arguments of a stand-alone translate or set_servo_angles call
    probeDuty   \* its result, <<>> before the call

runVars == <<input, pos, pc, current, target, steps, i, log, released, reports, pre, mark>>
probeVars == <<probe, probeDuty>>
vars == <<input, pos, pc, current, target, steps, i, log, released, reports, pre, mark,
          probe, probeDuty>>

StartState ==
    [s |-> Deg(START_SHOULDER), e |-> Deg(START_ELBOW), w |-> Deg(WRIST_UP_ANGLE)]

NoProbe == <<>>

Init ==
    /\ input \in Files
    /\ pos = 0
    /\ pc = "main"
    /\ current = StartState
    /\ target = StartState
    /\ steps = 0
    /\ i = 0
    /\ log = <<>>
    /\ released = <<>>
    /\ reports = <<>>
    /\ pre = StartState
    /\ mark = 0
    /\ probe = NoProbe
    /\ probeDuty = <<>>

(* a smaller set of files: one line for each branch of run_gcode_file, *)
(* moves of no step, of two steps and of many                          *)
BranchLines ==
    {L_COMMENT, L_G1_S89, L_G1_FAR, L_G1_TINY, L_G1_BARE, L_M3, L_M5, L_M18, L_G28}
BranchFiles == UNION {[1..n -> BranchLines] : n \in 0..MaxLines}

InitBranch ==
    /\ input \in BranchFiles
    /\ pos = 0
    /\ pc = "main"
    /\ current = StartState
    /\ target = StartState
    /\ steps = 0
    /\ i = 0
    /\ log = <<>>
    /\ released = <<>>
    /\ reports = <<>>
    /\ pre = StartState
    /\ mark = 0
    /\ probe = NoProbe
    /\ probeDuty = <<>>

(* ------------------------------------------------------------------ *)
(* set_servo_angles                                                    *)
(* ------------------------------------------------------------------ *)
Report(kind) == Append(reports, [kind |-> kind, line |-> pos + 1])

(* immediate=True behind the threshold test: nothing to do, no write *)
SetImmediate_skip(s_angle, e_angle, w_angle) ==
    LET t == Targets(current, s_angle, e_angle, w_angle)
    IN  /\ pre' = current
        /\ mark' = Len(log)
        /\ log' = IF Negligible(MaxDelta(current, t)) THEN log
                  ELSE log \o WritePose(<<t.s, 1>>, <<t.e, 1>>, <<t.w, 1>>)
        /\ current' = t
        /\ target' = t

(* immediate=True: three writes of the target pose, then the commit *)
SetImmediate(s_angle, e_angle, w_angle) ==
    LET t == Targets(current, s_angle, e_angle, w_angle)
    IN  /\ pre' = current
        /\ mark' = Len(log)
        /\ log' = log \o WritePose(<<t.s, 1>>, <<t.e, 1>>, <<t.w, 1>>)
        /\ current' = t
        /\ target' = t

(* immediate=False, up to the first iteration of the step loop: either  *)
(* the early return (the caller then reports and takes the next line)   *)
(* or the entry into the loop                                           *)
BeginMove(s_angle, e_angle, w_angle, kind) ==
    \E t \in {Targets(current, s_angle, e_angle, w_angle)} :
    \E max_delta \in {MaxDelta(current, t)} :
        /\ pre' = current
        /\ mark' = Len(log)
        /\ IF Negligible(max_delta)
           THEN /\ pc' = "read"
                /\ reports' = Report(kind)
                /\ UNCHANGED <<target, steps, i>>
           ELSE /\ pc' = "move"
                /\ target' = t
                /\ steps' = StepCount(max_delta)
                /\ i' = 0
                /\ UNCHANGED reports
        /\ UNCHANGED <<current, log>>

(* a step that also assigns current_* *)
MoveStep_commit ==
    /\ pc = "move"
    /\ i < steps
    /\ i' = i + 1
    /\ log' = log \o WritePose(Interp(current.s, target.s, i + 1, steps),
                               Interp(current.e, target.e, i + 1, steps),
                               Interp(current.w, target.w, i + 1, steps))
    /\ current' = target
    /\ UNCHANGED <<input, pos, pc, target, steps, released, reports, pre, mark>>
    /\ UNCHANGED <<probe, probeDuty>>

(* one iteration of "for i in range(1, steps+1)": three writes, sleep *)
MoveStep ==
    /\ pc = "move"
    /\ i < steps
    /\ i' = i + 1
    /\ log' = log \o WritePose(Interp(current.s, target.s, i + 1, steps),
                               Interp(current.e, target.e, i + 1, steps),
                               Interp(current.w, target.w, i + 1, steps))
    /\ UNCHANGED <<input, pos, pc, current, target, steps, released, reports, pre, mark>>
    /\ UNCHANGED probeVars

Line == input[pos]
Parsed(line) == parse_gcode_line(line)[1]
KindOf(cmd) ==
    CASE cmd = CMD_G1 -> "G1"
      [] cmd = CMD_M3 -> "M3"
      [] cmd = CMD_M5 -> "M5"
      [] cmd = CMD_M18 -> "M18"
      [] OTHER -> "Unknown"

(* the return without the finalize assignment *)
MoveFinish_stale ==
    /\ pc = "move"
    /\ i = steps
    /\ pc' = "read"
    /\ steps' = 0
    /\ i' = 0
    /\ reports' = Append(reports, [kind |-> KindOf(Parsed(Line).cmd), line |-> pos])
    /\ UNCHANGED <<input, pos, current, target, log, released, pre, mark>>
    /\ UNCHANGED probeVars

(* loop exhausted: the finalize assignment, the return, the caller's report *)
MoveFinish ==
    /\ pc = "move"
    /\ i = steps
    /\ current' = target
    /\ pc' = "read"
    /\ steps' = 0
    /\ i' = 0
    /\ reports' = Append(reports, [kind |-> KindOf(Parsed(Line).cmd), line |-> pos])
    /\ UNCHANGED <<input, pos, target, log, released, pre, mark>>
    /\ UNCHANGED probeVars

(* ------------------------------------------------------------------ *)
(* main and run_gcode_file                                             *)
(* ------------------------------------------------------------------ *)
MAIN_SHOULDER == 90
MAIN_ELBOW == 90

(* the pose main writes before it runs the file *)
MainPose ==
    [s |-> Deg(MAIN_SHOULDER), e |-> Deg(MAIN_ELBOW), w |-> Deg(WRIST_UP_ANGLE)]
MainWrites == WritePose(<<MainPose.s, 1>>, <<MainPose.e, 1>>, <<MainPose.w, 1>>)

Main ==
    /\ pc = "main"
    /\ SetImmediate(Some(Deg(MAIN_SHOULDER)), Some(Deg(MAIN_ELBOW)), Some(Deg(WRIST_UP_ANGLE)))
    /\ pc' = "read"
    /\ UNCHANGED <<input, pos, steps, i, released, reports>>
    /\ UNCHANGED probeVars

AtLine == pc = "read" /\ pos < Len(input)
Next_line == input[pos + 1]

(* a skipped line that the loop does not leave behind *)
SkipLine_stay ==
    /\ AtLine
    /\ parse_gcode_line(Next_line) = <<>>
    /\ UNCHANGED <<input, pos, pc, current, target, steps, i, log, released, reports, pre, mark>>
    /\ UNCHANGED probeVars

(* blank line, or parse_gcode_line returned None: continue *)
SkipLine ==
    /\ AtLine
    /\ parse_gcode_line(Next_line) = <<>>
    /\ pos' = pos + 1
    /\ UNCHANGED <<input, pc, current, target, steps, i, log, released, reports, pre, mark>>
    /\ UNCHANGED probeVars

(* G1 dropped when the next line is a G1 too *)
DispatchG1_coalesce ==
    /\ AtLine
    /\ parse_gcode_line(Next_line) # <<>>
    /\ Parsed(Next_line).cmd = CMD_G1
    /\ LET s_val == Get(Parsed(Next_line).params, "S")
           e_val == Get(Parsed(Next_line).params, "E")
           again == /\ pos + 2 <= Len(input)
                    /\ parse_gcode_line(input[pos + 2]) # <<>>
                    /\ Parsed(input[pos + 2]).cmd = CMD_G1
       IN  IF (s_val = None /\ e_val = None) \/ again
           THEN UNCHANGED <<pc, current, target, steps, i, log, reports, pre, mark>>
           ELSE BeginMove(s_val, e_val, None, "G1")
    /\ pos' = pos + 1
    /\ UNCHANGED <<input, released>>
    /\ UNCHANGED probeVars

(* G1 passing the pen-up angle for the wrist *)
DispatchG1_liftpen ==
    /\ AtLine
    /\ parse_gcode_line(Next_line) # <<>>
    /\ Parsed(Next_line).cmd = CMD_G1
    /\ LET s_val == Get(Parsed(Next_line).params, "S")
           e_val == Get(Parsed(Next_line).params, "E")
       IN  IF s_val = None /\ e_val = None
           THEN UNCHANGED <<pc, current, target, steps, i, log, reports, pre, mark>>
           ELSE BeginMove(s_val, e_val, Some(Deg(WRIST_UP_ANGLE)), "G1")
    /\ pos' = pos + 1
    /\ UNCHANGED <<input, released>>
    /\ UNCHANGED probeVars

(* G1 calling set_servo_angles whatever parameters it found *)
DispatchG1_always ==
    /\ AtLine
    /\ parse_gcode_line(Next_line) # <<>>
    /\ Parsed(Next_line).cmd = CMD_G1
    /\ LET s_val == Get(Parsed(Next_line).params, "S")
           e_val == Get(Parsed(Next_line).params, "E")
       IN  BeginMove(s_val, e_val, None, "G1")
    /\ pos' = pos + 1
    /\ UNCHANGED <<input, released>>
    /\ UNCHANGED probeVars

DispatchG1 ==
    /\ AtLine
    /\ parse_gcode_line(Next_line) # <<>>
    /\ Parsed(Next_line).cmd = CMD_G1
    /\ \E s_val \in {Get(Parsed(Next_line).params, "S")} :
       \E e_val \in {Get(Parsed(Next_line).params, "E")} :
           IF s_val = None /\ e_val = None
           THEN UNCHANGED <<pc, current, target, steps, i, log, reports, pre, mark>>
           ELSE BeginMove(s_val, e_val, None, "G1")
    /\ pos' = pos + 1
    /\ UNCHANGED <<input, released>>
    /\ UNCHANGED probeVars

DispatchM3 ==
    /\ AtLine
    /\ parse_gcode_line(Next_line) # <<>>
    /\ Parsed(Next_line).cmd = CMD_M3
    /\ BeginMove(None, None, Some(Deg(WRIST_DOWN_ANGLE)), "M3")
    /\ pos' = pos + 1
    /\ UNCHANGED <<input, released>>
    /\ UNCHANGED probeVars

DispatchM5 ==
    /\ AtLine
    /\ parse_gcode_line(Next_line) # <<>>
    /\ Parsed(Next_line).cmd = CMD_M5
    /\ BeginMove(None, None, Some(Deg(WRIST_UP_ANGLE)), "M5")
    /\ pos' = pos + 1
    /\ UNCHANGED <<input, released>>
    /\ UNCHANGED probeVars

(* M18 without the break *)
DispatchM18_nobreak ==
    /\ pc = "read" /\ pos < Len(input)
    /\ parse_gcode_line(input[pos + 1]) # <<>>
    /\ parse_gcode_line(input[pos + 1])[1].cmd = CMD_M18
    /\ reports' = Append(reports, [kind |-> "M18", line |-> pos + 1])
    /\ released' = released \o <<"shoulder", "elbow", "wrist">>
    /\ pos' = pos + 1
    /\ UNCHANGED <<input, pc, current, target, steps, i, log, pre, mark>>
    /\ UNCHANGED <<probe, probeDuty>>

(* report, disable_servos, break, "Finished running file." *)
DispatchM18 ==
    /\ AtLine
    /\ parse_gcode_line(Next_line) # <<>>
    /\ Parsed(Next_line).cmd = CMD_M18
    /\ reports' = Report("M18")
    /\ released' = released \o <<"shoulder", "elbow", "wrist">>
    /\ pc' = "done"
    /\ pos' = pos + 1
    /\ UNCHANGED <<input, current, target, steps, i, log, pre, mark>>
    /\ UNCHANGED probeVars

(* an unknown command ending the run *)
DispatchUnknown_abort ==
    /\ AtLine
    /\ parse_gcode_line(Next_line) # <<>>
    /\ Parsed(Next_line).cmd \notin {CMD_G1, CMD_M3, CMD_M5, CMD_M18}
    /\ reports' = Report("Unknown")
    /\ pos' = pos + 1
    /\ pc' = "done"
    /\ UNCHANGED <<input, current, target, steps, i, log, released, pre, mark>>
    /\ UNCHANGED probeVars

DispatchUnknown ==
    /\ AtLine
    /\ parse_gcode_line(Next_line) # <<>>
    /\ Parsed(Next_line).cmd \notin {CMD_G1, CMD_M3, CMD_M5, CMD_M18}
    /\ reports' = Report("Unknown")
    /\ pos' = pos + 1
    /\ UNCHANGED <<input, pc, current, target, steps, i, log, released, pre, mark>>
    /\ UNCHANGED probeVars

(* the servos disabled when the file is exhausted *)
EndOfFile_disable ==
    /\ pc = "read"
    /\ pos = Len(input)
    /\ pc' = "done"
    /\ released' = released \o <<"shoulder", "elbow", "wrist">>
    /\ UNCHANGED <<input, pos, current, target, steps, i, log, reports, pre, mark>>
    /\ UNCHANGED probeVars

(* the file is exhausted: "Finished running file." *)
EndOfFile ==
    /\ pc = "read"
    /\ pos = Len(input)
    /\ pc' = "done"
    /\ UNCHANGED <<input, pos, current, target, steps, i, log, released, reports, pre, mark>>
    /\ UNCHANGED probeVars

Next ==
    \/ Main
    \/ SkipLine
    \/ DispatchG1
    \/ DispatchM3
    \/ DispatchM5
    \/ DispatchM18
    \/ DispatchUnknown
    \/ MoveStep
    \/ MoveFinish
    \/ EndOfFile

Spec == Init /\ [][Next]_vars

(* the program is one thread that runs until it returns: a step that   *)
(* can be taken is taken                                               *)
SpecLive == InitBranch /\ [][Next]_vars /\ WF_vars(Next)

(* ------------------------------------------------------------------ *)
(* The run when pwm_obj.duty_u16 can raise                             *)
(* ------------------------------------------------------------------ *)
(* the writes of a pose issued before the write on channel j raises *)
WritesBefore(pose, j) == SubSeq(pose, 1, j - 1)

(* a handler that takes the move as made *)
WriteFail_commit ==
    /\ pc = "move"
    /\ i < steps
    /\ \E j \in 1..3 :
           log' = log \o WritesBefore(
                      WritePose(Interp(current.s, target.s, i + 1, steps),
                                Interp(current.e, target.e, i + 1, steps),
                                Interp(current.w, target.w, i + 1, steps)), j)
    /\ pc' = "failed"
    /\ current' = target
    /\ reports' = Append(reports, [kind |-> "Error", line |-> pos])
    /\ UNCHANGED <<input, pos, target, steps, i, released, pre, mark>>
    /\ UNCHANGED probeVars

(* a write of the step loop raises: the exception leaves                *)
(* set_servo_angles before line 99 and the for loop of run_gcode_file,  *)
(* and is printed by the except clause, which returns                   *)
WriteFail ==
    /\ pc = "move"
    /\ i < steps
    /\ \E j \in 1..3 :
           log' = log \o WritesBefore(
                      WritePose(Interp(current.s, target.s, i + 1, steps),
                                Interp(current.e, target.e, i + 1, steps),
                                Interp(current.w, target.w, i + 1, steps)), j)
    /\ pc' = "failed"
    /\ reports' = Append(reports, [kind |-> "Error", line |-> pos])
    /\ UNCHANGED <<input, pos, current, target, steps, i, released, pre, mark>>
    /\ UNCHANGED probeVars

(* a write of main's immediate call raises: the exception leaves        *)
(* set_servo_angles before line 75 and main, uncaught                   *)
MainFail ==
    /\ pc = "main"
    /\ \E j \in 1..3 : log' = log \o WritesBefore(MainWrites, j)
    /\ pc' = "failed"
    /\ UNCHANGED <<input, pos, current, target, steps, i, released, reports, pre, mark>>
    /\ UNCHANGED probeVars

NextFault ==
    \/ Next
    \/ WriteFail
    \/ MainFail

SpecFault == InitBranch /\ [][NextFault]_vars

(* ------------------------------------------------------------------ *)
(* The run as a function of the file: what each line does on its own   *)
(* ------------------------------------------------------------------ *)
(* the set_servo_angles call run_gcode_file makes for a line: <<>> for  *)
(* none, else <<[s, e, w]>> with the optional arguments                 *)
CallOf(line) ==
    LET p == parse_gcode_line(line)
    IN  IF p = <<>> THEN <<>>
        ELSE IF p[1].cmd = CMD_G1
        THEN LET s_val == Get(p[1].params, "S")
                 e_val == Get(p[1].params, "E")
             IN  IF s_val = None /\ e_val = None THEN <<>>
                 ELSE <<[s |-> s_val, e |-> e_val, w |-> None]>>
        ELSE IF p[1].cmd = CMD_M3
        THEN <<[s |-> None, e |-> None, w |-> Some(Deg(WRIST_DOWN_ANGLE))]>>
        ELSE IF p[1].cmd = CMD_M5
        THEN <<[s |-> None, e |-> None, w |-> Some(Deg(WRIST_UP_ANGLE))]>>
        ELSE <<>>

IsCall(line) == CallOf(line) # <<>>
CallTargets(cur, line) ==
    Targets(cur, CallOf(line)[1].s, CallOf(line)[1].e, CallOf(line)[1].w)

IsM18(line) ==
    parse_gcode_line(line) # <<>> /\ parse_gcode_line(line)[1].cmd = CMD_M18

(* the writes of steps 1..k of the step loop *)
RECURSIVE StepWrites(_, _, _, _)
StepWrites(cur, tgt, n, k) ==
    IF k = 0 THEN <<>>
    ELSE StepWrites(cur, tgt, n, k - 1)
         \o WritePose(Interp(cur.s, tgt.s, k, n), Interp(cur.e, tgt.e, k, n),
                      Interp(cur.w, tgt.w, k, n))

(* the writes of one non-immediate set_servo_angles call *)
MoveWrites(cur, tgt) ==
    IF Negligible(MaxDelta(cur, tgt)) THEN <<>>
    ELSE StepWrites(cur, tgt, StepCount(MaxDelta(cur, tgt)), StepCount(MaxDelta(cur, tgt)))

(* JointState after one non-immediate call *)
MoveResult(cur, tgt) == IF Negligible(MaxDelta(cur, tgt)) THEN cur ELSE tgt

(* the writes of run_gcode_file on these lines, from JointState cur *)
RECURSIVE RunWrites(_, _)
RunWrites(cur, lines) ==
    IF lines = <<>> THEN <<>>
    ELSE IF IsM18(Head(lines)) THEN <<>>
    ELSE IF ~IsCall(Head(lines)) THEN RunWrites(cur, Tail(lines))
    ELSE MoveWrites(cur, CallTargets(cur, Head(lines)))
         \o RunWrites(MoveResult(cur, CallTargets(cur, Head(lines))), Tail(lines))

(* ------------------------------------------------------------------ *)
(* translate called on its own, over several calibrations              *)
(* ------------------------------------------------------------------ *)
(* Bound of the model: probe angles run from -20 to MaxProbe degrees. *)
MaxProbe == 200

Calibration(min_angle, max_angle, min_pulse_us, max_pulse_us, pwm_freq) ==
    [min_angle |-> Deg(min_angle), max_angle |-> Deg(max_angle),
     min_pulse_us |-> min_pulse_us, max_pulse_us |-> max_pulse_us,
     pwm_freq |-> pwm_freq]

Translate(angle, cal) ==
    translate(angle, cal.min_angle, cal.max_angle, cal.min_pulse_us,
              cal.max_pulse_us, cal.pwm_freq)

DefaultCalibration == Calibration(MIN_ANGLE, MAX_ANGLE, MIN_PULSE_US, MAX_PULSE_US, PWM_FREQ)

Calibrations ==
    {DefaultCalibration,
     Calibration(-90, 90, 500, 2500, 100),
     Calibration(0, 180, -1000, 2000, 50),
     Calibration(0, 90, 800, 2200, 1000)}

(* half-degree grid, each point and the point one angle unit above it *)
ProbeAngles == {h * (Unit \div 2) + o : h \in -40..(2 * MaxProbe), o \in {0, 1}}

InitProbe ==
    /\ input = <<>>
    /\ pos = 0
    /\ pc = "off"
    /\ current = StartState
    /\ target = StartState
    /\ steps = 0
    /\ i = 0
    /\ log = <<>>
    /\ released = <<>>
    /\ reports = <<>>
    /\ pre = StartState
    /\ mark = 0
    /\ probe \in [angle : {<<a, 1>> : a \in ProbeAngles}, cal : Calibrations]
    /\ probeDuty = <<>>

TranslateCall ==
    /\ probe # NoProbe
    /\ probeDuty = <<>>
    /\ probeDuty' = <<Translate(probe.angle, probe.cal)>>
    /\ UNCHANGED probe
    /\ UNCHANGED runVars

NextProbe == TranslateCall

SpecTranslate == InitProbe /\ [][NextProbe]_vars

(* ------------------------------------------------------------------ *)
(* set_servo_angles(..., immediate=True) called on its own, from any   *)
(* JointState and with any arguments                                   *)
(* ------------------------------------------------------------------ *)
(* angles inside and outside [MIN_ANGLE, MAX_ANGLE], one of them half  *)
(* a threshold away from another                                       *)
ImmediateAngles == {-Deg(STEP_DEG), Deg(START_SHOULDER), Deg(START_SHOULDER) + 1,
                    Deg(MAX_ANGLE) + Deg(STEP_DEG)}
OptionalAngles == {None} \cup {Some(a) : a \in ImmediateAngles}

InitImmediate ==
    /\ input = <<>>
    /\ pos = 0
    /\ pc = "call"
    /\ current \in [s : ImmediateAngles, e : ImmediateAngles, w : ImmediateAngles]
    /\ target = current
    /\ steps = 0
    /\ i = 0
    /\ log = <<>>
    /\ released = <<>>
    /\ reports = <<>>
    /\ pre = current
    /\ mark = 0
    /\ probe \in [s : OptionalAngles, e : OptionalAngles, w : OptionalAngles]
    /\ probeDuty = <<>>

ImmediateCall ==
    /\ pc = "call"
    /\ SetImmediate(probe.s, probe.e, probe.w)
    /\ pc' = "called"
    /\ UNCHANGED <<input, pos, steps, i, released, reports>>
    /\ UNCHANGED probeVars

NextImmediate == ImmediateCall

SpecImmediate == InitImmediate /\ [][NextImmediate]_vars

(* ================================================================== *)
(* Properties                                                          *)
(* ================================================================== *)
Disabled == released # <<>>
Consumed == SubSeq(input, 1, pos)

(* C1: once an M18 line has been dispatched nothing more happens: no   *)
(* duty write, no JointState change, no report, no further line taken, *)
(* however many lines follow it.                                       *)
C1_HaltsAfterDisable ==
    [][Disabled => /\ log' = log
                   /\ current' = current
                   /\ reports' = reports
                   /\ pos' = pos]_vars

(* C1 witness: the run has ended by M18 with lines left unread *)
C1_Witness ==
    /\ Disabled
    /\ pc = "done"
    /\ pos < Len(input)
    /\ reports[Len(reports)].kind = "M18"

(* C2: the writes of a finished run are main's pose followed by the    *)
(* writes of each line taken on its own, in file order, each from the  *)
(* JointState its predecessors left; the same holds of the lines       *)
(* consumed so far whenever the loop is between two lines.             *)
C2_FileOrder ==
    pc \in {"read", "done"} => log = MainWrites \o RunWrites(MainPose, Consumed)

(* C2 witness: two consecutive G1 moves have both been written *)
C2_Witness ==
    /\ pc = "done"
    /\ Len(input) = 2
    /\ Len(reports) = 2
    /\ reports[1].kind = "G1" /\ reports[2].kind = "G1"
    /\ Len(MoveWrites(MainPose, CallTargets(MainPose, input[1]))) > 0
    /\ Len(log) > 3 + Len(MoveWrites(MainPose, CallTargets(MainPose, input[1])))

(* what the commit of a call with these arguments leaves in JointState *)
SuppliedCommit(before, args) ==
    [s |-> IF args.s = None THEN before.s ELSE args.s[1] + Deg(SHOULDER_OFFSET),
     e |-> IF args.e = None THEN before.e ELSE args.e[1] + Deg(ELBOW_OFFSET),
     w |-> IF args.w = None THEN before.w ELSE args.w[1] + Deg(WRIST_OFFSET)]

(* C3: JointState keeps its pre-call value through every step of a     *)
(* non-immediate call, and the commit that ends the call (or the       *)
(* immediate call of main) sets every joint with a supplied target to  *)
(* that target plus its offset and leaves the others alone.            *)
C3_CommitAtEnd ==
    [][/\ (pc = "move" => current = pre)
       /\ (pc = "move" /\ pc' = "move" => current' = current)
       /\ (pc = "move" /\ pc' # "move" =>
              current' = SuppliedCommit(current, CallOf(input[pos])[1]))
       /\ (pc = "main" /\ pc' # "main" => current' = MainPose)]_vars

(* C3 witness: in the middle of a move, writes issued, nothing committed *)
C3_Witness ==
    /\ pc = "move"
    /\ i > 0 /\ i < steps
    /\ Len(log) > mark
    /\ current = pre
    /\ current # target

(* C4: a call with the same arguments as the call that has just        *)
(* completed writes nothing and leaves JointState as it is.            *)
C4_Idempotent ==
    [][(/\ pc = "read"
        /\ pos >= 1 /\ pos < Len(input)
        /\ IsCall(input[pos]) /\ IsCall(input[pos + 1])
        /\ CallOf(input[pos + 1]) = CallOf(input[pos]))
       => (log' = log /\ current' = current /\ pc' = "read")]_vars

(* C4 witness: the same moving line twice, the second one writing nothing *)
C4_Witness ==
    /\ pc = "read"
    /\ pos = 2
    /\ input[1] = input[2]
    /\ IsCall(input[1])
    /\ current # MainPose
    /\ mark = Len(log)
    /\ mark > 3

(* the three writes of the pose written last, and each joint's target *)
LastPose == SubSeq(log, Len(log) - 2, Len(log))
TargetOf == <<target.s, target.e, target.w>>
StartOf == <<current.s, current.e, current.w>>
(* the written angle n/d is the angle t *)
AtAngle(w, t) == w.angle[1] = t * w.angle[2]
DeltasDiffer ==
    ~(/\ Abs(target.s - current.s) = Abs(target.e - current.e)
      /\ Abs(target.e - current.e) = Abs(target.w - current.w))

ChannelOrder == <<"shoulder", "elbow", "wrist">>
CallMaxDelta == MaxDelta(pre, CallTargets(pre, input[pos]))
ThresholdUnits == Unit \div ThresholdDen

(* C6: a call whose largest change is at or above the threshold runs   *)
(* steps = floor(maxDelta / STEP_DEG) + 1 >= 1 steps, non-decreasing   *)
(* in maxDelta, and writes shoulder, elbow, wrist once each per step,  *)
(* 3 * steps writes in all; below the threshold it writes nothing.     *)
C6_StepCount ==
    /\ pc = "move" =>
          /\ CallMaxDelta >= ThresholdUnits
          /\ steps = CallMaxDelta \div Deg(STEP_DEG) + 1
          /\ steps >= 1
          /\ steps <= StepCount(CallMaxDelta + 1)
          /\ steps <= StepCount(CallMaxDelta + Deg(STEP_DEG))
          /\ i <= steps
          /\ Len(log) = mark + 3 * i
    /\ (pc = "read" /\ pos >= 1 /\ IsCall(input[pos])) =>
          LET n == IF CallMaxDelta < ThresholdUnits THEN 0
                   ELSE CallMaxDelta \div Deg(STEP_DEG) + 1
          IN  /\ Len(log) = mark + 3 * n
              /\ \A k \in 1..(3 * n) : log[mark + k].ch = ChannelOrder[((k - 1) % 3) + 1]

(* C6 witness: a completed call of at least two steps *)
C6_Witness ==
    /\ pc = "read" /\ pos >= 1 /\ IsCall(input[pos])
    /\ CallMaxDelta >= Deg(STEP_DEG)
    /\ Len(log) = mark + 3 * (CallMaxDelta \div Deg(STEP_DEG) + 1)
    /\ current # pre

(* C7: translate clamps instead of rejecting: at or below min_angle it *)
(* returns the duty of min_angle, at or above max_angle the duty of    *)
(* max_angle, it is non-decreasing in the angle, and the result is an  *)
(* integer in [0, 65535], for each calibration of Calibrations.        *)
C7_TranslateClamps ==
    probeDuty # <<>> =>
        LET r == probeDuty[1]
            a == probe.angle[1]
            cal == probe.cal
        IN  /\ r \in 0..U16_MAX
            /\ a <= cal.min_angle => r = Translate(<<cal.min_angle, 1>>, cal)
            /\ a >= cal.max_angle => r = Translate(<<cal.max_angle, 1>>, cal)
            /\ \A b \in {a + 1, a + (Unit \div 2) - 1, a + (Unit \div 2)} :
                   r <= Translate(<<b, 1>>, cal)

(* C7 witness: an angle below min_angle has been translated to the     *)
(* duty of min_angle, which is neither 0 nor 65535                     *)
C7_Witness ==
    /\ probeDuty # <<>>
    /\ probe.cal = DefaultCalibration
    /\ probe.angle[1] < probe.cal.min_angle
    /\ probeDuty[1] = Translate(<<probe.cal.min_angle, 1>>, probe.cal)
    /\ probeDuty[1] > 0 /\ probeDuty[1] < U16_MAX

(* translate(MIN_ANGLE) and translate(MAX_ANGLE) *)
DutyAtMin == Translate(<<Deg(MIN_ANGLE), 1>>, DefaultCalibration)
DutyAtMax == Translate(<<Deg(MAX_ANGLE), 1>>, DefaultCalibration)

(* C8: every value passed to duty_u16 in a run is an integer in        *)
(* [0, 65535] between translate(MIN_ANGLE) and translate(MAX_ANGLE).   *)
(* Every write is among the last three of the state that follows the   *)
(* step issuing it, so the last three writes of every state are all    *)
(* writes.                                                             *)
C8_PulseLimits ==
    \A k \in (Len(log) - 2)..Len(log) :
        k >= 1 =>
            /\ Duty(log[k]) \in 0..U16_MAX
            /\ Duty(log[k]) >= DutyAtMin
            /\ Duty(log[k]) <= DutyAtMax

(* C8 witness: the shoulder has been written beyond MAX_ANGLE and the  *)
(* elbow below MIN_ANGLE in one pose                                   *)
C8_Witness ==
    /\ pc = "move" /\ i = steps
    /\ LastPose[1].angle[1] > Deg(MAX_ANGLE) * LastPose[1].angle[2]
    /\ LastPose[2].angle[1] < Deg(MIN_ANGLE) * LastPose[2].angle[2]
    /\ Duty(LastPose[1]) = DutyAtMax
    /\ Duty(LastPose[2]) = DutyAtMin

(* the line is no blank or comment line and its first token, upper-    *)
(* cased, is none of G1, M3, M5, M18                                   *)
IsUnknownLine(line) ==
    /\ line # <<>>
    /\ line[1][1] \notin {";", "("}
    /\ UpperSeq(line[1]) \notin {<<"G", "1">>, <<"M", "3">>, <<"M", "5">>, <<"M", "1", "8">>}
IsKnownLine(line) == ~IsUnknownLine(line)

(* C9: a line whose first token, upper-cased, is none of G1, M3, M5,   *)
(* M18 (and that is no blank or comment line) is reported as unknown   *)
(* and changes nothing else: no write, no JointState change, no        *)
(* release, the loop goes on to the next line; only such lines are     *)
(* reported unknown; and the writes of the run are those of the file   *)
(* with its unknown lines left out.                                    *)
C9_UnknownSkipped ==
    [][/\ (pc = "read" /\ pos < Len(input) /\ IsUnknownLine(input[pos + 1])) =>
              /\ log' = log
              /\ current' = current
              /\ released' = released
              /\ pc' = "read"
              /\ pos' = pos + 1
              /\ reports' = Append(reports, [kind |-> "Unknown", line |-> pos + 1])
       /\ \A k \in 1..Len(reports) :
              reports[k].kind = "Unknown" => IsUnknownLine(input[reports[k].line])
       /\ pc \in {"read", "done"} =>
              log = MainWrites \o RunWrites(MainPose, SelectSeq(Consumed, IsKnownLine))]_vars

(* C9 witness: an unknown line was skipped and the move after it made *)
C9_Witness ==
    /\ pc = "read" /\ pos = 2
    /\ IsUnknownLine(input[1])
    /\ reports[1].kind = "Unknown"
    /\ Len(reports) = 2 /\ reports[2].kind = "G1"
    /\ Len(log) > 3

(* partial parameter recovery: what a G1 line asks for, read off its   *)
(* tokens one by one                                                   *)
WellFormed(token) == Len(token) >= 2 /\ ParseFloat(Tail(token)) # <<>>
ValidAt(line, letter) ==
    {k \in 2..Len(line) : WellFormed(line[k]) /\ Upper(line[k][1]) = letter}
HasValid(line, letter) == ValidAt(line, letter) # {}
LastValid(line, letter) ==
    ParseFloat(Tail(line[CHOOSE k \in ValidAt(line, letter) :
                             \A m \in ValidAt(line, letter) : m <= k]))[1]
IsG1Line(line) ==
    /\ line # <<>>
    /\ line[1][1] \notin {";", "("}
    /\ UpperSeq(line[1]) = <<"G", "1">>
Asked(before, line) ==
    [s |-> IF HasValid(line, "S") THEN LastValid(line, "S") + Deg(SHOULDER_OFFSET)
           ELSE before.s,
     e |-> IF HasValid(line, "E") THEN LastValid(line, "E") + Deg(ELBOW_OFFSET)
           ELSE before.e,
     w |-> before.w]
AfterValidG1 ==
    /\ pc = "read" /\ pos >= 1
    /\ IsG1Line(input[pos])
    /\ HasValid(input[pos], "S") \/ HasValid(input[pos], "E")

C11_EmptyG1NoOp ==
    [][(/\ pc = "read" /\ pos < Len(input)
        /\ IsG1Line(input[pos + 1])
        /\ ~HasValid(input[pos + 1], "S")
        /\ ~HasValid(input[pos + 1], "E"))
       => /\ log' = log
          /\ current' = current
          /\ pre' = pre /\ mark' = mark
          /\ reports' = reports
          /\ released' = released
          /\ pc' = "read"
          /\ pos' = pos + 1]_vars

(* C11 witness: a G1 line of malformed tokens only was passed over and *)
(* the G1 line after it has moved the arm                              *)
C11_Witness ==
    /\ pc = "read" /\ pos = 2
    /\ input[1] = L_G1_MALFORMED
    /\ reports = <<[kind |-> "G1", line |-> 2]>>
    /\ mark = 3
    /\ Len(log) > 3
    /\ current # MainPose

(* the command of the line taken last; the duty of a stored angle *)
LineKind == KindOf(Parsed(Line).cmd)
DutyOf(ch, a) == Duty(write_servo(ch, <<a, 1>>))
PenAngle(kind) == IF kind = "M3" THEN Deg(WRIST_DOWN_ANGLE) ELSE Deg(WRIST_UP_ANGLE)

(* C12: a G1 command never changes the wrist angle of JointState and   *)
(* every wrist duty it writes is the duty of the current wrist angle;  *)
(* M3 (M5) sets the wrist angle to WRIST_DOWN_ANGLE (WRIST_UP_ANGLE),  *)
(* never changes the shoulder or elbow angle and writes for them the   *)
(* duties of their current angles; a G1 with a valid S only leaves the *)
(* elbow where it is, one with a valid E only the shoulder.            *)
C12_JointFrames ==
    [][/\ pc = "move" =>
          /\ LineKind = "G1" =>
                /\ target.w = current.w /\ current'.w = current.w
                /\ i >= 1 => Duty(LastPose[3]) = DutyOf("wrist", current.w)
                /\ ~HasValid(Line, "E") =>
                      /\ target.e = current.e /\ current'.e = current.e
                      /\ i >= 1 => Duty(LastPose[2]) = DutyOf("elbow", current.e)
                /\ ~HasValid(Line, "S") =>
                      /\ target.s = current.s /\ current'.s = current.s
                      /\ i >= 1 => Duty(LastPose[1]) = DutyOf("shoulder", current.s)
          /\ LineKind \in {"M3", "M5"} =>
                /\ target.s = current.s /\ current'.s = current.s
                /\ target.e = current.e /\ current'.e = current.e
                /\ target.w = PenAngle(LineKind)
                /\ pc' = "read" => current'.w = PenAngle(LineKind)
                /\ i >= 1 => /\ Duty(LastPose[1]) = DutyOf("shoulder", current.s)
                             /\ Duty(LastPose[2]) = DutyOf("elbow", current.e)
       /\ (pc = "read" /\ pos' = pos + 1 /\ IsCall(input[pos + 1])) =>
          /\ current' = current
          /\ (pc' = "read" /\ ~IsG1Line(input[pos + 1])) =>
                current'.w = PenAngle(KindOf(Parsed(input[pos + 1]).cmd))]_vars

(* C12 witness: with the pen down, a G1 with S only is moving the      *)
(* shoulder and has written the wrist at the pen-down duty             *)
C12_Witness ==
    /\ pc = "move" /\ i >= 1
    /\ LineKind = "G1"
    /\ HasValid(Line, "S") /\ ~HasValid(Line, "E")
    /\ current.w = Deg(WRIST_DOWN_ANGLE)
    /\ target.s # current.s
    /\ Duty(LastPose[3]) = DutyOf("wrist", Deg(WRIST_DOWN_ANGLE))
    /\ Duty(LastPose[3]) # DutyOf("wrist", Deg(WRIST_UP_ANGLE))

Failed == pc = "failed"

(* C13: a write that raises, at any step of any move and on any of the *)
(* three channels, ends the run and leaves no partial move in          *)
(* JointState: the rest of the move's writes are not issued, no later  *)
(* line is taken, and JointState holds the values it had before the    *)
(* move began, which are neither an interpolated value nor the target. *)
C13_FailureKeepsState ==
    [][/\ (~Failed /\ Failed') =>
              /\ current' = current
              /\ current' = pre
              /\ pos' = pos
              /\ Len(log') < Len(log) + 3
              /\ pc = "move" =>
                    /\ current' # target
                    /\ Len(log') < mark + 3 * steps
                    /\ \A k \in 1..steps :
                           \E j \in 1..3 :
                               ~AtAngle(write_servo(ChannelOrder[j],
                                            Interp(StartOf[j], TargetOf[j], k, steps)),
                                        <<current'.s, current'.e, current'.w>>[j])
       /\ Failed =>
              /\ log' = log
              /\ current' = current
              /\ pos' = pos
              /\ released' = released
              /\ Failed']_vars

(* C13 witness: the elbow write of a step after the first raised, with *)
(* steps and a line of the file still to come                          *)
C13_Witness ==
    /\ Failed
    /\ steps > 0
    /\ i >= 1 /\ i + 1 < steps
    /\ Len(log) = mark + 3 * i + 1
    /\ pos < Len(input)
    /\ current = pre
    /\ current # target

(* C14: after an M18 command has been processed JointState is the     *)
(* startup default, shoulder 90, elbow 90, wrist WRIST_UP_ANGLE,       *)
(* whatever moves preceded it.                                         *)
C14_ResetOnDisable ==
    Disabled => current = StartState

(* an M18 line is among the lines taken so far *)
M18Taken == \E k \in 1..pos : IsM18(input[k])

C16_ImmediateOnePose ==
    pc = "called" =>
        LET t == SuppliedCommit(pre, probe)
            ts == <<t.s, t.e, t.w>>
        IN  /\ Len(log) = mark + 3
            /\ \A j \in 1..3 :
                   /\ log[mark + j].ch = ChannelOrder[j]
                   /\ AtAngle(log[mark + j], ts[j])
                   /\ log[mark + j].angle[2] = 1
                   /\ Duty(log[mark + j]) = DutyOf(ChannelOrder[j], ts[j])
            /\ current = t
            /\ steps = 0 /\ i = 0

(* C16 witness: an immediate call whose targets are the current state, *)
(* the shoulder beyond MAX_ANGLE, has written the three joints         *)
C16_Witness ==
    /\ pc = "called"
    /\ probe.s # None /\ probe.e = None /\ probe.w # None
    /\ current = pre
    /\ current.s > Deg(MAX_ANGLE)
    /\ Len(log) = 3
    /\ Duty(log[1]) = DutyAtMax

(* the file holds an M18 line *)
HasM18 == \E k \in 1..Len(input) : IsM18(input[k])

(* the run has returned: by the break of M18, at the first M18 line of  *)
(* the file, the servos released; or from the exhausted for loop, every *)
(* line taken, the servos still held                                    *)
Finished ==
    /\ pc = "done"
    /\ i = 0 /\ steps = 0
    /\ Disabled <=> HasM18
    /\ Disabled => /\ IsM18(input[pos])
                   /\ \A k \in 1..(pos - 1) : ~IsM18(input[k])
    /\ ~Disabled => pos = Len(input)

(* C17: every run finishes, whatever the file; it has then released    *)
(* the servos (state Disabled) exactly if the file holds an M18 line,  *)
(* having stopped at the first one, and has otherwise taken every line *)
(* and ended at the end of the file with the servos still held.        *)
C17_Terminates == <>Finished

(* C17 witness: a run of two moves has ended at the end of the file,   *)
(* the servos still held                                               *)
C17_Witness ==
    /\ pc = "done"
    /\ ~Disabled
    /\ pos = Len(input)
    /\ Len(reports) >= 2
    /\ Len(log) > 3 + 3

(* the angle written for joint j by the step just taken and the angle *)
(* the joint was at before it (the pre-move angle before step 1), both *)
(* as numerators over steps                                            *)
NewAngle(j) == log'[Len(log') - 3 + j].angle[1]
OldAngle(j) == IF i = 0 THEN StartOf[j] * steps ELSE LastPose[j].angle[1]

====
